---- MODULE Spec2Model ----
(***************************************************************************)
(* Model of the application state of native-windows-wysiwyg (main.rs):     *)
(* AppState with its project slot, gui_struct_index and gui_tasks queue,   *)
(* the project lifecycle operations, and the Cargo.toml handling.          *)
(*                                                                         *)
(* The filesystem is part of the state.  A manifest text is a sequence of  *)
(* tokens (each token stands for a run of bytes of the file); an option    *)
(* value is <<>> (None) or <<x>> (Some(x)).                                *)
(***************************************************************************)
EXTENDS Integers, Sequences, FiniteSets, TLC

\* ------------------------------------------------------------------ bounds
\* Longest task queue an operation may leave behind (the shell drains it).
MaxTasks == 5
\* Last tick of the filesystem clock.
MaxClock == 1
\* Largest GUI struct index the shell hands to set_gui_struct_index.
MaxIndex == 0
\* Longest manifest (in tokens) fix_dependencies is let to write.
MaxManifest == 26

\* The longest task queue of the specification of the queue.
MaxQueue == 7

\* ------------------------------------------------------------ option type
None == <<>>
Some(x) == <<x>>
IsSome(o) == o # <<>>
Unwrap(o) == o[1]

\* ------------------------------------------------------------ results
Ok == [ok |-> TRUE, msg |-> "ok", code |-> 0]
Err(m) == [ok |-> FALSE, msg |-> m, code |-> 0]
ErrCode(m, c) == [ok |-> FALSE, msg |-> m, code |-> c]

\* ------------------------------------------------------------ GuiTask
EnableUi(b) == [tag |-> "EnableUi", flag |-> b, title |-> <<>>]
UpdateWindowTitle(t) == [tag |-> "UpdateWindowTitle", flag |-> FALSE, title |-> t]
ReloadProjectSettings == [tag |-> "ReloadProjectSettings", flag |-> FALSE, title |-> <<>>]
ReloadObjectInspector == [tag |-> "ReloadObjectInspector", flag |-> FALSE, title |-> <<>>]
AskUserUpdateDependencies == [tag |-> "AskUserUpdateDependencies", flag |-> FALSE, title |-> <<>>]
ClearData == [tag |-> "ClearData", flag |-> FALSE, title |-> <<>>]

\* format!("Native Windows WYSIWYG - {}", name)
ProjectTitle(name) == <<"Native Windows WYSIWYG - ", name>>
ResetTitle == <<"Native Windows WYSIWYG">>

\* ------------------------------------------------------------ manifest text
NL == "\n"
\* the section header searched by fix_dependencies: "[dependencies]"
dep_str == <<"[", "dependencies", "]">>
\* the bytes fix_dependencies writes between the two halves
nwg_insert == <<NL, "native-windows-gui", "=", "~1.0", NL>>
nwd_insert == <<"native-windows-derive", "=", "~1.0", NL>>
\* the bytes cargo_init appends to the new manifest
init_dep == <<"native-windows-gui", "=", "~1.0", NL,
              "native-windows-derive", "=", "~1.0", NL>>

\* str::match_indices(pat).next(): 0-based offset of the first occurrence
IsMatchAt(text, pat, i) ==
    /\ i + Len(pat) <= Len(text)
    /\ \A k \in 1..Len(pat) : text[i + k] = pat[k]

MatchOffsets(text, pat) == {i \in 0..Len(text) : IsMatchAt(text, pat, i)}

Min(S) == CHOOSE x \in S : \A y \in S : x <= y

first_match(text, pat) ==
    IF MatchOffsets(text, pat) = {} THEN None
    ELSE Some(Min(MatchOffsets(text, pat)))

\* str::split_at(mid)
split_at(text, mid) == <<SubSeq(text, 1, mid), SubSeq(text, mid + 1, Len(text))>>

\* ------------------------------------------------------------ toml::from_str
\* Lines of a text (split at the newline token, the newline dropped).
RECURSIVE SplitLines(_, _, _)
SplitLines(text, i, cur) ==
    IF i > Len(text) THEN (IF cur = <<>> THEN <<>> ELSE <<cur>>)
    ELSE IF text[i] = NL THEN <<cur>> \o SplitLines(text, i + 1, <<>>)
    ELSE SplitLines(text, i + 1, Append(cur, text[i]))

IsBlank(line) == line = <<>>
IsComment(line) == Len(line) >= 1 /\ line[1] = "#"
IsHeader(line) == Len(line) = 3 /\ line[1] = "[" /\ line[3] = "]"
IsKeyValue(line) == Len(line) = 3 /\ line[2] = "="

EmptyDoc == [ok |-> TRUE, table |-> "", tables |-> {}, entries |-> {}]

\* One line of the document: a table header opens a table (a table may be
\* defined once), a key/value pair is added to the open table (a key may be
\* defined once per table), anything else is a syntax error.
ParseLine(doc, line) ==
    IF ~doc.ok THEN doc
    ELSE IF IsBlank(line) \/ IsComment(line) THEN doc
    ELSE IF IsHeader(line) THEN
        IF line[2] \in doc.tables THEN [doc EXCEPT !.ok = FALSE]
        ELSE [doc EXCEPT !.table = line[2], !.tables = @ \cup {line[2]}]
    ELSE IF IsKeyValue(line) THEN
        IF \E e \in doc.entries : e[1] = doc.table /\ e[2] = line[1]
        THEN [doc EXCEPT !.ok = FALSE]
        ELSE [doc EXCEPT !.entries = @ \cup {<<doc.table, line[1], line[3]>>}]
    ELSE [doc EXCEPT !.ok = FALSE]

RECURSIVE ParseLines(_, _, _)
ParseLines(doc, lines, i) ==
    IF i > Len(lines) THEN doc
    ELSE ParseLines(ParseLine(doc, lines[i]), lines, i + 1)

\* The parsed document (toml::Value) is its tables and entries.
Content(doc) == [tables |-> doc.tables, entries |-> doc.entries]

toml_from_str(text) ==
    LET doc == ParseLines(EmptyDoc, SplitLines(text, 1, <<>>), 1)
    IN IF doc.ok THEN Some(Content(doc)) ELSE None

\* ------------------------------------------------------------ filesystem
\* The paths the shell can hand to the core.
Paths == {"nonexistent", "main.rs", "notes.txt", "ro", "locked", "proj", "new"}

\* fs::metadata(path) succeeds
Exists(p) == p # "nonexistent"
\* Metadata::is_dir
IsDir(p) == p \in {"ro", "locked", "proj", "new"}
\* Permissions::readonly
ReadOnly(p) == p \in {"notes.txt", "ro"}
\* fs::read_dir(path) succeeds
Listable(p) == p # "locked"
\* entries of the directory other than the manifest
OtherEntries(p) == p \in {"ro", "proj"}
\* Path::file_stem
file_stem(p) ==
    CASE p = "main.rs" -> "main"
      [] p = "notes.txt" -> "notes"
      [] OTHER -> p

\* Manifests found on disk / written by other programs.
Header(name) == <<"[", name, "]", NL>>
Package(name) == Header("package") \o <<"name", "=", name, NL>>
KeyVal(k, v) == <<k, "=", v, NL>>

\* the manifest of the spec's scenario: no required dependency
M_foo == Package("x") \o Header("dependencies") \o KeyVal("foo", "1")
\* both required dependencies present
M_both == Package("x") \o Header("dependencies")
            \o KeyVal("native-windows-gui", "~1.0")
            \o KeyVal("native-windows-derive", "~1.0")
\* only native-windows-gui present
M_half == Package("x") \o Header("dependencies")
            \o KeyVal("native-windows-gui", "~1.0")
\* no [dependencies] section
M_nosection == Package("x")
\* the header is the end of the file (no newline after it)
M_eof == Package("x") \o dep_str
\* the header text occurs in a comment before the section
M_comment == <<"#", "[", "dependencies", "]", NL>> \o Package("x")
               \o Header("dependencies")
\* not a TOML document
M_bad == <<"name", "x", NL>>

Manifests == {M_foo, M_both, M_half, M_nosection, M_eof, M_comment, M_bad}

\* What another program leaves when it rewrites the manifest.
Rewrites == {M_both, M_bad}

\* What `cargo init --bin` writes to Cargo.toml in directory `path`
\* (the package is named after the directory).
cargo_init_manifest(path) ==
    Package(path) \o <<NL>> \o Header("dependencies")

\* The outcomes of Command::output() and of the ExitStatus.
ToolOutcomes ==
    { [kind |-> "ok", code |-> 0],
      [kind |-> "spawn_failed", code |-> 0],
      [kind |-> "exit", code |-> 1],
      [kind |-> "exit", code |-> 101],
      [kind |-> "signal", code |-> 0] }

\* the file opened with append(true), as cargo_init opens it
write_appended(old, data) == old \o data

\* File::write_all on a file opened with write(true) (no truncate, no
\* append): the data replaces the bytes from offset 0, what the old file
\* has beyond the data stays.
write_from_start(old, data) ==
    data \o SubSeq(old, Len(data) + 1, Len(old))

VARIABLES
    project,           \* AppState.project: Option<Project>
    gui_struct_index,  \* AppState.gui_struct_index: Option<usize>
    gui_tasks,         \* AppState.gui_tasks: Vec<GuiTask>
    cargo,             \* path -> Option<[text, mtime]>: the Cargo.toml under path
    mtime,             \* path -> modification time of the path itself
    clock,             \* the filesystem's current time
    last               \* the last step: its name, whether it returned Ok, and
                       \* whether it ran cargo, read and wrote a manifest

vars == <<project, gui_struct_index, gui_tasks, cargo, mtime, clock, last>>

\* The filesystem as the operations see it.
Fs == [cargo |-> cargo, mtime |-> mtime]
\* The application state.
App == [project |-> project, gui_struct_index |-> gui_struct_index,
        gui_tasks |-> gui_tasks]

\* ------------------------------------------------------------ Project
\* Project::new
Project_new(path, cargo_toml) == [path |-> path, cargo_toml |-> cargo_toml]

\* Project::cargo_path: the Cargo.toml under the project path
cargo_path(proj) == proj.path

\* has_dependency: lookup in the [dependencies] table; no table, no dependency
has_dependency(content, name) ==
    \E e \in content.entries : e[1] = "dependencies" /\ e[2] = name

\* Project::missing_dependencies: <<nwg missing, nwd missing>>
missing_dependencies(proj) ==
    << ~has_dependency(proj.cargo_toml.content, "native-windows-gui"),
       ~has_dependency(proj.cargo_toml.content, "native-windows-derive") >>

\* Project::dependencies_ok
dependencies_ok(proj) ==
    /\ ~missing_dependencies(proj)[1]
    /\ ~missing_dependencies(proj)[2]

\* parser::has_gui_struct: false on a read failure or when the marker is absent
has_gui_struct(path) == path = "main.rs"

\* the package name recorded in a manifest
package_name(content) ==
    {e[3] : e \in {x \in content.entries : x[1] = "package" /\ x[2] = "name"}}

\* ------------------------------------------------------------ AppState
\* What an operation leaves behind: the application state, the filesystem,
\* the returned Result, whether `cargo` was run, how many times a manifest's
\* content was read and whether a manifest was written.
Outcome(s, f, ret, spawned, reads, wrote) ==
    [s |-> s, f |-> f, ret |-> ret, spawned |-> spawned, reads |-> reads,
     wrote |-> wrote]

push(s, tasks) == [s EXCEPT !.gui_tasks = @ \o tasks]

\* AppState::project_loaded
project_loaded(s) == IsSome(s.project)

\* AppState::init_project
init_project(s, path, cargo_toml) ==
    [s EXCEPT !.project = Some(Project_new(path, cargo_toml))]

\* AppState::set_gui_struct_index
set_gui_struct_index(s, index) == [s EXCEPT !.gui_struct_index = index]

\* validate_new_project_path with the emptiness check done before the
\* write-access check
validate_empty_first(f, path) ==
    IF ~Exists(path) THEN Err("path_no_access")
    ELSE IF ~IsDir(path) THEN Err("not_a_directory")
    ELSE IF ~Listable(path) THEN Err("read_dir_failed")
    ELSE IF OtherEntries(path) \/ IsSome(f.cargo[path]) THEN Err("must_be_empty")
    ELSE IF ReadOnly(path) THEN Err("no_write_access")
    ELSE Ok

\* AppState::validate_new_project_path
validate_new_project_path(f, path) ==
    IF ~Exists(path) THEN Err("path_no_access")
    ELSE IF ~IsDir(path) THEN Err("not_a_directory")
    ELSE IF ReadOnly(path) THEN Err("no_write_access")
    ELSE IF ~Listable(path) THEN Err("read_dir_failed")
    ELSE IF OtherEntries(path) \/ IsSome(f.cargo[path]) THEN Err("must_be_empty")
    ELSE Ok

\* cargo_init without the check of the exit status: a failed tool left no
\* manifest, and opening it for append fails
cargo_init_unchecked(f, now, path, tool) ==
    IF tool.kind = "spawn_failed" THEN [f |-> f, ret |-> Err("cargo_run_failed")]
    ELSE IF tool.kind # "ok" THEN [f |-> f, ret |-> Err("cargo_toml_open")]
    ELSE
        [f |-> [cargo |-> [f.cargo EXCEPT ![path] =
                    Some([text |-> cargo_init_manifest(path) \o init_dep,
                          mtime |-> now])],
                mtime |-> [f.mtime EXCEPT ![path] = now]],
         ret |-> Ok]

\* AppState::cargo_init: runs `cargo init --bin` in path, then appends the
\* two dependency lines to the manifest the tool wrote.
cargo_init(f, now, path, tool) ==
    IF tool.kind = "spawn_failed" THEN [f |-> f, ret |-> Err("cargo_run_failed")]
    ELSE IF tool.kind = "exit" THEN
        [f |-> f, ret |-> ErrCode("cargo_exit_code", tool.code)]
    ELSE IF tool.kind = "signal" THEN [f |-> f, ret |-> Err("cargo_signal")]
    ELSE
        [f |-> [cargo |-> [f.cargo EXCEPT ![path] =
                    Some([text |-> cargo_init_manifest(path) \o init_dep,
                          mtime |-> now])],
                mtime |-> [f.mtime EXCEPT ![path] = now]],
         ret |-> Ok]

\* AppState::read_cargo_toml
read_cargo_toml(f, path) ==
    LET content == toml_from_str(Unwrap(f.cargo[path]).text)
    IN  IF ~Exists(path) THEN
            [ret |-> Err("cargo_toml_read"), toml |-> None, reads |-> 0]
        ELSE IF ~IsSome(f.cargo[path]) THEN
            [ret |-> Err("cargo_toml_read"), toml |-> None, reads |-> 0]
        ELSE IF ~IsSome(content) THEN
            [ret |-> Err("cargo_toml_parse"), toml |-> None, reads |-> 1]
        ELSE
            [ret |-> Ok,
             toml |-> Some([modified |-> f.mtime[path],
                            content |-> Unwrap(content)]),
             reads |-> 1]

\* AppState::reload_cargo (the project is loaded)
reload_cargo_keeps_modified(s, f) ==
    LET proj == Unwrap(s.project)
        file == f.cargo[cargo_path(proj)]
        modified == Unwrap(file).mtime
        content == toml_from_str(Unwrap(file).text)
    IN  IF ~IsSome(file) THEN Outcome(s, f, Err("cargo_toml_read"), FALSE, 0, FALSE)
        ELSE IF modified = proj.cargo_toml.modified THEN
            Outcome(s, f, Ok, FALSE, 0, FALSE)
        ELSE IF ~IsSome(content) THEN
            Outcome(s, f, Err("cargo_toml_parse"), FALSE, 1, FALSE)
        ELSE
            Outcome([s EXCEPT !.project = Some([proj EXCEPT !.cargo_toml =
                        [modified |-> proj.cargo_toml.modified,
                         content |-> Unwrap(content)]])],
                    f, Ok, FALSE, 1, FALSE)

\* AppState::reload_cargo
reload_cargo(s, f) ==
    LET proj == Unwrap(s.project)
        file == f.cargo[cargo_path(proj)]
        modified == Unwrap(file).mtime
        content == toml_from_str(Unwrap(file).text)
    IN  IF ~IsSome(file) THEN Outcome(s, f, Err("cargo_toml_read"), FALSE, 0, FALSE)
        ELSE IF modified = proj.cargo_toml.modified THEN
            Outcome(s, f, Ok, FALSE, 0, FALSE)
        ELSE IF ~IsSome(content) THEN
            Outcome(s, f, Err("cargo_toml_parse"), FALSE, 1, FALSE)
        ELSE
            Outcome([s EXCEPT !.project = Some([proj EXCEPT !.cargo_toml =
                        [modified |-> modified, content |-> Unwrap(content)]])],
                    f, Ok, FALSE, 1, FALSE)

\* AppState::reload_gui_struct: Project::reload_gui_struct rescans the
\* sources of the project; scan_ok is whether that scan succeeds.
reload_gui_struct(s, scan_ok) ==
    IF ~project_loaded(s) THEN Ok
    ELSE IF scan_ok THEN Ok
    ELSE Err("gui_struct_reload")

\* create_new_project pushing the tasks of open_project
create_with_open_tasks(s, f, now, path, tool) ==
    LET v == validate_new_project_path(f, path)
        c == cargo_init(f, now, path, tool)
        r == read_cargo_toml(c.f, path)
    IN  IF ~v.ok THEN Outcome(s, f, v, FALSE, 0, FALSE)
        ELSE IF ~c.ret.ok THEN Outcome(s, c.f, c.ret, TRUE, 0, FALSE)
        ELSE IF ~r.ret.ok THEN Outcome(s, c.f, r.ret, TRUE, r.reads, TRUE)
        ELSE Outcome(
                push(init_project(s, path, Unwrap(r.toml)),
                     << EnableUi(TRUE),
                        UpdateWindowTitle(ProjectTitle(path)),
                        ReloadProjectSettings,
                        ReloadObjectInspector >>),
                c.f, Ok, TRUE, r.reads, TRUE)

\* AppState::create_new_project
create_new_project(s, f, now, path, tool) ==
    LET v == validate_new_project_path(f, path)
        c == cargo_init(f, now, path, tool)
        r == read_cargo_toml(c.f, path)
    IN  IF ~v.ok THEN Outcome(s, f, v, FALSE, 0, FALSE)
        ELSE IF ~c.ret.ok THEN Outcome(s, c.f, c.ret, TRUE, 0, FALSE)
        ELSE IF ~r.ret.ok THEN Outcome(s, c.f, r.ret, TRUE, r.reads, TRUE)
        ELSE Outcome(
                push(init_project(s, path, Unwrap(r.toml)),
                     << EnableUi(TRUE),
                        UpdateWindowTitle(ProjectTitle(path)),
                        ReloadProjectSettings >>),
                c.f, Ok, TRUE, r.reads, TRUE)

\* open_project with the dependency test inverted
open_project_ask_inverted(s, f, path, scan_ok) ==
    LET r == read_cargo_toml(f, path)
        s1 == push(init_project(s, path, Unwrap(r.toml)),
                   << EnableUi(TRUE),
                      UpdateWindowTitle(ProjectTitle(path)),
                      ReloadProjectSettings,
                      ReloadObjectInspector >>)
        s2 == IF dependencies_ok(Unwrap(s1.project))
              THEN push(s1, <<AskUserUpdateDependencies>>)
              ELSE s1
    IN  IF ~r.ret.ok THEN Outcome(s, f, r.ret, FALSE, r.reads, FALSE)
        ELSE Outcome(s2, f, reload_gui_struct(s2, scan_ok), FALSE, r.reads, FALSE)

\* AppState::open_project
open_project(s, f, path, scan_ok) ==
    LET r == read_cargo_toml(f, path)
        s1 == push(init_project(s, path, Unwrap(r.toml)),
                   << EnableUi(TRUE),
                      UpdateWindowTitle(ProjectTitle(path)),
                      ReloadProjectSettings,
                      ReloadObjectInspector >>)
        s2 == IF ~dependencies_ok(Unwrap(s1.project))
              THEN push(s1, <<AskUserUpdateDependencies>>)
              ELSE s1
    IN  IF ~r.ret.ok THEN Outcome(s, f, r.ret, FALSE, r.reads, FALSE)
        ELSE Outcome(s2, f, reload_gui_struct(s2, scan_ok), FALSE, r.reads, FALSE)

\* open_file_project testing for the GUI struct after the project is set up
open_file_check_late(s, f, path, scan_ok) ==
    LET file_name == file_stem(path)
        cargo_toml ==
            [modified |-> f.mtime[path],
             content |-> [tables |-> {"package"},
                          entries |-> {<<"package", "name", file_name>>}]]
        s1 == push(init_project(s, path, cargo_toml),
                   << EnableUi(TRUE),
                      UpdateWindowTitle(ProjectTitle(file_name)),
                      ReloadProjectSettings,
                      ReloadObjectInspector >>)
    IN  IF ~Exists(path) THEN
            Outcome(s, f, Err("file_metadata"), FALSE, 0, FALSE)
        ELSE IF ~has_gui_struct(path) THEN
            Outcome(s1, f, Err("no_gui_struct"), FALSE, 0, FALSE)
        ELSE Outcome(s1, f, reload_gui_struct(s1, scan_ok), FALSE, 0, FALSE)

\* AppState::open_file_project
open_file_project(s, f, path, scan_ok) ==
    LET file_name == file_stem(path)
        cargo_toml ==
            [modified |-> f.mtime[path],
             content |-> [tables |-> {"package"},
                          entries |-> {<<"package", "name", file_name>>}]]
        s1 == push(init_project(s, path, cargo_toml),
                   << EnableUi(TRUE),
                      UpdateWindowTitle(ProjectTitle(file_name)),
                      ReloadProjectSettings,
                      ReloadObjectInspector >>)
    IN  IF ~has_gui_struct(path) THEN
            Outcome(s, f, Err("no_gui_struct"), FALSE, 0, FALSE)
        ELSE IF ~Exists(path) THEN
            Outcome(s, f, Err("file_metadata"), FALSE, 0, FALSE)
        ELSE Outcome(s1, f, reload_gui_struct(s1, scan_ok), FALSE, 0, FALSE)

\* close_project without its early return
close_project_unguarded(s) ==
    push([s EXCEPT !.project = None],
         << EnableUi(FALSE), UpdateWindowTitle(ResetTitle), ClearData >>)

\* AppState::close_project
close_project_drops_queue(s) ==
    IF ~project_loaded(s) THEN s
    ELSE [s EXCEPT !.project = None,
                   !.gui_tasks = << EnableUi(FALSE), UpdateWindowTitle(ResetTitle),
                                    ClearData >>]

\* close_project announcing an enabled interface
close_project_enables_ui(s) ==
    IF ~project_loaded(s) THEN s
    ELSE push([s EXCEPT !.project = None],
              << EnableUi(TRUE), UpdateWindowTitle(ResetTitle), ClearData >>)

\* AppState::close_project
close_project(s) ==
    IF ~project_loaded(s) THEN s
    ELSE push([s EXCEPT !.project = None],
              << EnableUi(FALSE), UpdateWindowTitle(ResetTitle), ClearData >>)

\* The splice of fix_dependencies: the text written for cargo_str split at
\* dep_index.
splice(cargo_str, dep_index) ==
    split_at(cargo_str, dep_index)[1] \o nwg_insert \o nwd_insert
        \o split_at(cargo_str, dep_index)[2]

\* the offset of the match itself, its length not added
dep_index_at_match(cargo_str) == first_match(cargo_str, dep_str)

\* the end of the text when it holds no "[dependencies]"
dep_index_or_end(cargo_str) ==
    IF IsSome(first_match(cargo_str, dep_str))
    THEN Some(Unwrap(first_match(cargo_str, dep_str)) + Len(dep_str))
    ELSE Some(Len(cargo_str))

\* The offset after the first "[dependencies]" of the text, if there is one.
dep_index_of(cargo_str) ==
    IF IsSome(first_match(cargo_str, dep_str))
    THEN Some(Unwrap(first_match(cargo_str, dep_str)) + Len(dep_str))
    ELSE None

\* fix_dependencies without the early return when nothing is missing
fix_without_missing_test(s, f, now) ==
    IF ~project_loaded(s) THEN Outcome(s, f, Ok, FALSE, 0, FALSE)
    ELSE
    LET proj == Unwrap(s.project)
        cp == cargo_path(proj)
        file == f.cargo[cp]
        cargo_str == Unwrap(file).text
        dep_index == dep_index_of(cargo_str)
        f1 == [f EXCEPT !.cargo[cp] =
                 Some([text |-> write_from_start(cargo_str,
                                    splice(cargo_str, Unwrap(dep_index))),
                       mtime |-> now])]
        r == reload_cargo(s, f1)
    IN  IF ~IsSome(file) THEN
            Outcome(s, f, Err("cargo_toml_read"), FALSE, 0, FALSE)
        ELSE IF ~IsSome(dep_index) THEN
            Outcome(s, f, Err("dependencies_not_found"), FALSE, 1, FALSE)
        ELSE IF ~r.ret.ok THEN Outcome(r.s, f1, r.ret, FALSE, 1 + r.reads, TRUE)
        ELSE Outcome(push(r.s, <<ReloadProjectSettings>>), f1, Ok, FALSE,
                     1 + r.reads, TRUE)

\* fix_dependencies reporting a missing project as an error
fix_no_project_is_error(s, f, now) ==
    IF ~project_loaded(s) THEN Outcome(s, f, Err("no_project"), FALSE, 0, FALSE)
    ELSE
    LET proj == Unwrap(s.project)
        missing == missing_dependencies(proj)
        cp == cargo_path(proj)
        file == f.cargo[cp]
        cargo_str == Unwrap(file).text
        dep_index == dep_index_of(cargo_str)
        f1 == [f EXCEPT !.cargo[cp] =
                 Some([text |-> write_from_start(cargo_str,
                                    splice(cargo_str, Unwrap(dep_index))),
                       mtime |-> now])]
        r == reload_cargo(s, f1)
    IN  IF ~missing[1] /\ ~missing[2] THEN Outcome(s, f, Ok, FALSE, 0, FALSE)
        ELSE IF ~IsSome(file) THEN
            Outcome(s, f, Err("cargo_toml_read"), FALSE, 0, FALSE)
        ELSE IF ~IsSome(dep_index) THEN
            Outcome(s, f, Err("dependencies_not_found"), FALSE, 1, FALSE)
        ELSE IF ~r.ret.ok THEN Outcome(r.s, f1, r.ret, FALSE, 1 + r.reads, TRUE)
        ELSE Outcome(push(r.s, <<ReloadProjectSettings>>), f1, Ok, FALSE,
                     1 + r.reads, TRUE)

\* AppState::fix_dependencies
fix_dependencies(s, f, now) ==
    IF ~project_loaded(s) THEN Outcome(s, f, Ok, FALSE, 0, FALSE)
    ELSE
    LET proj == Unwrap(s.project)
        missing == missing_dependencies(proj)
        cp == cargo_path(proj)
        file == f.cargo[cp]
        cargo_str == Unwrap(file).text
        dep_index == dep_index_of(cargo_str)
        f1 == [f EXCEPT !.cargo[cp] =
                 Some([text |-> write_from_start(cargo_str,
                                    splice(cargo_str, Unwrap(dep_index))),
                       mtime |-> now])]
        r == reload_cargo(s, f1)
    IN  IF ~missing[1] /\ ~missing[2] THEN Outcome(s, f, Ok, FALSE, 0, FALSE)
        ELSE IF ~IsSome(file) THEN
            Outcome(s, f, Err("cargo_toml_read"), FALSE, 0, FALSE)
        ELSE IF ~IsSome(dep_index) THEN
            Outcome(s, f, Err("dependencies_not_found"), FALSE, 1, FALSE)
        ELSE IF ~r.ret.ok THEN Outcome(r.s, f1, r.ret, FALSE, 1 + r.reads, TRUE)
        ELSE Outcome(push(r.s, <<ReloadProjectSettings>>), f1, Ok, FALSE,
                     1 + r.reads, TRUE)

\* ------------------------------------------------------------ the machine
NoTool == [kind |-> "none", code |-> 0]

Last(op, o) ==
    [op |-> op, ok |-> o.ret.ok,
     spawned |-> o.spawned, reads |-> o.reads, wrote |-> o.wrote]

\* The record of a step that is no fallible core operation.
Quiet(op) ==
    [op |-> op, ok |-> TRUE, spawned |-> FALSE, reads |-> 0, wrote |-> FALSE]

\* AppState::init, over a filesystem holding one existing project.
Init ==
    /\ project = None
    /\ gui_struct_index = None
    /\ gui_tasks = <<>>
    /\ \E m \in Manifests :
         cargo = [p \in Paths |->
                    IF p = "proj" THEN Some([text |-> m, mtime |-> 0]) ELSE None]
    /\ mtime = [p \in Paths |-> 0]
    /\ clock = 0
    /\ last = Quiet("init")

\* The state an operation's outcome leaves.
Becomes(o) ==
    /\ Len(o.s.gui_tasks) <= MaxTasks
    /\ \A p \in Paths :
         IsSome(o.f.cargo[p]) => Len(Unwrap(o.f.cargo[p]).text) <= MaxManifest
    /\ project' = o.s.project
    /\ gui_struct_index' = o.s.gui_struct_index
    /\ gui_tasks' = o.s.gui_tasks
    /\ cargo' = o.f.cargo
    /\ mtime' = o.f.mtime
    /\ clock' = clock

\* The outcome of the tool is drawn when the tool is run.
Create ==
    \E path \in Paths :
      \E tool \in IF validate_new_project_path(Fs, path).ok
                  THEN ToolOutcomes ELSE {NoTool} :
        LET o == create_new_project(App, Fs, clock, path, tool)
        IN  /\ Becomes(o)
            /\ last' = Last("create", o)

\* The outcome of the scan is drawn when the sources are scanned.
Open ==
    \E path \in Paths :
      \E scan_ok \in IF read_cargo_toml(Fs, path).ret.ok THEN BOOLEAN ELSE {TRUE} :
        LET o == open_project(App, Fs, path, scan_ok)
        IN  /\ Becomes(o)
            /\ last' = Last("open", o)

OpenFile ==
    \E path \in Paths :
      \E scan_ok \in IF has_gui_struct(path) THEN BOOLEAN ELSE {TRUE} :
        LET o == open_file_project(App, Fs, path, scan_ok)
        IN  /\ Becomes(o)
            /\ last' = Last("open_file", o)

Close ==
    LET o == Outcome(close_project(App), Fs, Ok, FALSE, 0, FALSE)
    IN  /\ Becomes(o)
        /\ last' = Last("close", o)

FixDependencies ==
    LET o == fix_dependencies(App, Fs, clock)
    IN  /\ Becomes(o)
        /\ last' = Last("fix_dependencies", o)

\* reload_cargo unwraps the project: it is called with a project loaded.
ReloadCargo ==
    /\ project_loaded(App)
    /\ LET o == reload_cargo(App, Fs)
       IN  /\ Becomes(o)
           /\ last' = Last("reload_cargo", o)

SetGuiStructIndex ==
    \E index \in {None} \cup {Some(i) : i \in 0..MaxIndex} :
        LET o == Outcome(set_gui_struct_index(App, index), Fs, Ok, FALSE, 0, FALSE)
        IN  /\ Becomes(o)
            /\ last' = Last("set_gui_struct_index", o)

\* The shell drains the queue through tasks_mut().
Drain ==
    /\ gui_tasks # <<>>
    /\ gui_tasks' = <<>>
    /\ last' = Quiet("drain")
    /\ UNCHANGED <<project, gui_struct_index, cargo, mtime, clock>>

\* Time passes.
Tick ==
    /\ clock < MaxClock
    /\ clock' = clock + 1
    /\ last' = Quiet("tick")
    /\ UNCHANGED <<project, gui_struct_index, gui_tasks, cargo, mtime>>

\* Another program rewrites the manifest of the existing project.
ExternalWrite ==
    \E m \in Rewrites :
        /\ Unwrap(cargo["proj"]).text # m
        /\ cargo' = [cargo EXCEPT !["proj"] = Some([text |-> m, mtime |-> clock])]
        /\ last' = Quiet("external_write")
        /\ UNCHANGED <<project, gui_struct_index, gui_tasks, mtime, clock>>

Next ==
    \/ Create
    \/ Open
    \/ OpenFile
    \/ Close
    \/ FixDependencies
    \/ ReloadCargo
    \/ SetGuiStructIndex
    \/ Drain
    \/ Tick
    \/ ExternalWrite

Spec == Init /\ [][Next]_vars

\* The same operations over a queue long enough to hold the tasks of several
\* operations between two drains; gui_struct_index is left alone, which
\* leaves room for the longer queue.
Queued(o) ==
    /\ Len(o.s.gui_tasks) <= MaxQueue
    /\ \A p \in Paths :
         IsSome(o.f.cargo[p]) => Len(Unwrap(o.f.cargo[p]).text) <= MaxManifest
    /\ project' = o.s.project
    /\ gui_struct_index' = o.s.gui_struct_index
    /\ gui_tasks' = o.s.gui_tasks
    /\ cargo' = o.f.cargo
    /\ mtime' = o.f.mtime
    /\ clock' = clock

QueueCreate ==
    \E path \in Paths :
      \E tool \in IF validate_new_project_path(Fs, path).ok
                  THEN ToolOutcomes ELSE {NoTool} :
        LET o == create_new_project(App, Fs, clock, path, tool)
        IN  /\ Queued(o)
            /\ last' = Last("create", o)

QueueOpen ==
    \E path \in Paths :
      \E scan_ok \in IF read_cargo_toml(Fs, path).ret.ok THEN BOOLEAN ELSE {TRUE} :
        LET o == open_project(App, Fs, path, scan_ok)
        IN  /\ Queued(o)
            /\ last' = Last("open", o)

QueueOpenFile ==
    \E path \in Paths :
      \E scan_ok \in IF has_gui_struct(path) THEN BOOLEAN ELSE {TRUE} :
        LET o == open_file_project(App, Fs, path, scan_ok)
        IN  /\ Queued(o)
            /\ last' = Last("open_file", o)

QueueClose ==
    LET o == Outcome(close_project(App), Fs, Ok, FALSE, 0, FALSE)
    IN  /\ Queued(o)
        /\ last' = Last("close", o)

QueueFixDependencies ==
    LET o == fix_dependencies(App, Fs, clock)
    IN  /\ Queued(o)
        /\ last' = Last("fix_dependencies", o)

QueueReloadCargo ==
    /\ project_loaded(App)
    /\ LET o == reload_cargo(App, Fs)
       IN  /\ Queued(o)
           /\ last' = Last("reload_cargo", o)

NextQueue ==
    \/ QueueCreate
    \/ QueueOpen
    \/ QueueOpenFile
    \/ QueueClose
    \/ QueueFixDependencies
    \/ QueueReloadCargo
    \/ Drain
    \/ Tick
    \/ ExternalWrite

SpecQueue == Init /\ [][NextQueue]_vars

\* ------------------------------------------------------------ properties
CloseTasks == << EnableUi(FALSE), UpdateWindowTitle(ResetTitle), ClearData >>

\* s ends with the sequence t
EndsWith(s, t) ==
    /\ Len(s) >= Len(t)
    /\ SubSeq(s, Len(s) - Len(t) + 1, Len(s)) = t

\* The last step was a close_project that found a project loaded.
ClosedLoaded == last.op = "close" /\ EndsWith(gui_tasks, CloseTasks)

\* C1: right after a close() of a loaded project the project slot and
\* gui_struct_index are both absent (so gui_struct_index is never present
\* there while the project is absent).
C1_CloseClearsBoth ==
    ClosedLoaded => (project = None /\ gui_struct_index = None)

\* C2: close() is idempotent.  Closing the state a close leaves changes
\* nothing (application state and task queue); a close with no project
\* loaded changes nothing; a close with a project loaded appends exactly
\* EnableUi(false), UpdateWindowTitle(reset title), ClearData.
C2_CloseIdempotent ==
    /\ close_project(close_project(App)) = close_project(App)
    /\ ~project_loaded(App) => close_project(App) = App
    /\ project_loaded(App) =>
         /\ close_project(App).gui_tasks = gui_tasks \o CloseTasks
         /\ close_project(App).project = None
    /\ last.op = "close" => close_project(App) = App

\* A close of a loaded project has just returned (a second close follows it).
C2_Witness == ClosedLoaded /\ Len(gui_tasks) = Len(CloseTasks)

\* The manifest file of the loaded project, on disk.
ManifestFile == cargo[cargo_path(Unwrap(project))]

\* C3: after a successful open or create the Manifest's `modified` is the
\* modification time of the manifest file on disk.
C3_LoadedModifiedIsFileTime ==
    (last.op \in {"open", "create"} /\ last.ok) =>
        Unwrap(project).cargo_toml.modified = Unwrap(ManifestFile).mtime

\* C4: a reload_cargo that directly follows an open (nothing written in
\* between) reads no file content and leaves the Manifest as it is.
C4_ReloadAfterOpenIsNoop ==
    [][(last.op = "open" /\ last.ok /\ last'.op = "reload_cargo") =>
          (last'.reads = 0 /\ project' = project)]_vars

\* What fix_dependencies does in the current state, and the manifest text
\* before and after it.
Fixed == fix_dependencies(App, Fs, clock)
TextBefore == Unwrap(ManifestFile).text
TextAfter == Unwrap(Fixed.f.cargo[cargo_path(Unwrap(project))]).text

\* text with the sequence ins put in at offset i
InsertAt(text, i, ins) ==
    SubSeq(text, 1, i) \o ins \o SubSeq(text, i + 1, Len(text))
\* text without the n tokens after offset i
RemoveAt(text, i, n) ==
    SubSeq(text, 1, i) \o SubSeq(text, i + n + 1, Len(text))

\* the bytes fix_dependencies adds
Inserted == nwg_insert \o nwd_insert
\* the dependency lines themselves
DependencyLines == Tail(nwg_insert) \o nwd_insert

\* The last step was a fix_dependencies that wrote the manifest.
FixWrote == last.op = "fix_dependencies" /\ last.wrote

\* C5: the file fix_dependencies writes is the original text with the
\* inserted bytes added at one offset: taking exactly those bytes out again
\* gives the original text.
C5_SplicePreservesText ==
    Fixed.wrote =>
        \E i \in 0..Len(TextBefore) :
            /\ TextAfter = InsertAt(TextBefore, i, Inserted)
            /\ RemoveAt(TextAfter, i, Len(Inserted)) = TextBefore

C5_Witness == FixWrote /\ Len(Unwrap(ManifestFile).text) > Len(M_foo)

\* offsets right after an occurrence of the header
HeaderEnds(text) ==
    {i \in Len(dep_str)..Len(text) :
        SubSeq(text, i - Len(dep_str) + 1, i) = dep_str}
\* the text up to and including the first header, and the rest
UpToHeader(text) == SubSeq(text, 1, Min(HeaderEnds(text)))
AfterHeader(text) == SubSeq(text, Min(HeaderEnds(text)) + 1, Len(text))

\* C6 as claimed: when a newline follows the header, the inserted lines go
\* on the lines after the header and the line that followed the header comes
\* directly after the last inserted line, no blank line added.
C6_NoBlankLine ==
    (Fixed.wrote /\ AfterHeader(TextBefore) # <<>>
                 /\ Head(AfterHeader(TextBefore)) = NL) =>
        TextAfter = UpToHeader(TextBefore) \o <<NL>> \o DependencyLines
                        \o Tail(AfterHeader(TextBefore))

\* C6 amended: the written text is the text up to and including the first
\* header, a newline, the dependency lines, and the whole original remainder
\* (which starts with the newline that ended the header line: one blank line
\* follows the inserted lines).
C6_SpliceAfterHeader ==
    Fixed.wrote =>
        TextAfter = UpToHeader(TextBefore) \o <<NL>> \o DependencyLines
                        \o AfterHeader(TextBefore)

\* The spec's scenario has been spliced.
C6_Witness ==
    /\ FixWrote
    /\ Unwrap(cargo["proj"]).text =
         Package("x") \o dep_str \o <<NL>> \o DependencyLines
            \o <<NL>> \o KeyVal("foo", "1")

\* What create_new_project does in the current state.
Created(path, tool) == create_new_project(App, Fs, clock, path, tool)

\* The directory holds nothing.
IsEmptyDir(path) ==
    Listable(path) /\ ~OtherEntries(path) /\ cargo[path] = None
\* The preconditions of create.
ValidNewPath(path) ==
    Exists(path) /\ IsDir(path) /\ ~ReadOnly(path) /\ IsEmptyDir(path)

\* C7: create reports the first precondition that fails, in the order
\* existence, is-directory, writable, empty; when one fails cargo is not
\* run, and the application state (project, tasks) and the disk are as before.
C7_ValidationOrder ==
    \A path \in Paths, tool \in ToolOutcomes :
        LET o == Created(path, tool)
        IN  /\ ~Exists(path) => o.ret = Err("path_no_access")
            /\ (Exists(path) /\ ~IsDir(path)) => o.ret = Err("not_a_directory")
            /\ (Exists(path) /\ IsDir(path) /\ ReadOnly(path)) =>
                    o.ret = Err("no_write_access")
            /\ (Exists(path) /\ IsDir(path) /\ ~ReadOnly(path)
                    /\ ~IsEmptyDir(path)) =>
                    o.ret \in {Err("must_be_empty"), Err("read_dir_failed")}
            /\ ~ValidNewPath(path) =>
                    (~o.spawned /\ o.s = App /\ o.f = Fs)

\* A create has just failed without running cargo.
C7_Witness == last.op = "create" /\ ~last.ok /\ ~last.spawned

\* C8: create on a valid empty writable directory with cargo succeeding
\* returns Ok, loads a project whose manifest names the package after the
\* directory, and appends exactly EnableUi(true), UpdateWindowTitle,
\* ReloadProjectSettings.
C8_CreateLoads ==
    \A path \in Paths, tool \in ToolOutcomes :
        (ValidNewPath(path) /\ tool.kind = "ok") =>
            LET o == Created(path, tool)
            IN  /\ o.ret = Ok
                /\ project_loaded(o.s)
                /\ Unwrap(o.s.project).path = path
                /\ package_name(Unwrap(o.s.project).cargo_toml.content) = {path}
                /\ o.s.gui_tasks = gui_tasks \o
                       << EnableUi(TRUE),
                          UpdateWindowTitle(ProjectTitle(path)),
                          ReloadProjectSettings >>
                /\ o.s.gui_struct_index = gui_struct_index

\* A create has just succeeded.
C8_Witness ==
    /\ last.op = "create" /\ last.ok
    /\ project_loaded(App) /\ Unwrap(project).path = "new"

\* The tool did not succeed.
ToolFailed(tool) == tool.kind \in {"spawn_failed", "exit", "signal"}

\* C9 as claimed: whenever the tool cannot be started, exits non-zero or is
\* killed by a signal, the error names the exit code or the signal, and
\* nothing (manifest, project, tasks) is changed.
C9_ErrorNamesCodeOrSignal ==
    \A path \in Paths, tool \in ToolOutcomes :
        (ValidNewPath(path) /\ ToolFailed(tool)) =>
            LET o == Created(path, tool)
            IN  /\ \/ o.ret = ErrCode("cargo_exit_code", tool.code)
                   \/ o.ret = Err("cargo_signal")
                /\ o.f = Fs /\ o.s = App

\* C9 amended: a non-zero exit gives an error naming the exit code, a signal
\* an error saying the tool was terminated by a signal, and a tool that
\* cannot be started an error reporting the failed launch; in the three
\* cases nothing (manifest, project, tasks) is changed.
C9_ToolFailureReported ==
    \A path \in Paths, tool \in ToolOutcomes :
        (ValidNewPath(path) /\ ToolFailed(tool)) =>
            LET o == Created(path, tool)
            IN  /\ tool.kind = "exit" =>
                      o.ret = ErrCode("cargo_exit_code", tool.code)
                /\ tool.kind = "signal" => o.ret = Err("cargo_signal")
                /\ tool.kind = "spawn_failed" => o.ret = Err("cargo_run_failed")
                /\ o.spawned
                /\ o.f = Fs /\ o.s = App

\* A create has just failed after running cargo.
C9_Witness ==
    /\ last.op = "create" /\ ~last.ok /\ last.spawned
    /\ cargo["new"] = None

OpenTasks(path) ==
    << EnableUi(TRUE), UpdateWindowTitle(ProjectTitle(path)),
       ReloadProjectSettings, ReloadObjectInspector >>

\* Both required dependencies are in the manifest.
BothPresent(content) ==
    /\ has_dependency(content, "native-windows-gui")
    /\ has_dependency(content, "native-windows-derive")

\* C10: a successful open appends EnableUi(true), UpdateWindowTitle,
\* ReloadProjectSettings, ReloadObjectInspector, then
\* AskUserUpdateDependencies exactly when a required dependency is absent
\* from the loaded manifest.
C10_OpenTasks ==
    \A path \in Paths, scan_ok \in BOOLEAN :
        LET o == open_project(App, Fs, path, scan_ok)
        IN  o.ret.ok =>
              /\ project_loaded(o.s)
              /\ o.s.gui_tasks = gui_tasks \o OpenTasks(path) \o
                    (IF BothPresent(Unwrap(o.s.project).cargo_toml.content)
                     THEN <<>> ELSE <<AskUserUpdateDependencies>>)

\* An open has just succeeded and asked for the dependencies.
C10_Witness ==
    /\ last.op = "open" /\ last.ok
    /\ EndsWith(gui_tasks, OpenTasks("proj") \o <<AskUserUpdateDependencies>>)

\* C11: open_file_project on a file in which the scanner finds no GUI struct
\* fails with the validation error, pushes no task and leaves the project
\* slot and gui_struct_index (and the disk) as they were.
C11_NoGuiStructRejected ==
    \A path \in Paths, scan_ok \in BOOLEAN :
        ~has_gui_struct(path) =>
            LET o == open_file_project(App, Fs, path, scan_ok)
            IN  /\ o.ret = Err("no_gui_struct")
                /\ o.s = App
                /\ o.f = Fs

\* An open_file_project has just failed while another project stays loaded.
C11_Witness ==
    /\ last.op = "open_file" /\ ~last.ok
    /\ project_loaded(App) /\ Unwrap(project).path = "proj"

\* C12: fix_dependencies on a loaded project whose manifest has both
\* required dependencies returns Ok, pushes no task, writes no file and
\* leaves the Manifest as it is.
C12_FixNothingMissing ==
    (project_loaded(App) /\ BothPresent(Unwrap(project).cargo_toml.content)) =>
        /\ Fixed.ret = Ok
        /\ Fixed.s = App
        /\ Fixed.f = Fs
        /\ ~Fixed.wrote

\* A fix_dependencies has just returned on a project with both dependencies.
C12_Witness ==
    /\ last.op = "fix_dependencies" /\ last.ok /\ ~last.wrote
    /\ project_loaded(App) /\ BothPresent(Unwrap(project).cargo_toml.content)
    /\ Unwrap(project).path = "proj"

\* C13: fix_dependencies with no project loaded returns Ok and changes
\* nothing: no project, the same queue, no file read or written.
C13_FixWithoutProject ==
    ~project_loaded(App) =>
        /\ Fixed.ret = Ok
        /\ Fixed.s = App
        /\ Fixed.f = Fs
        /\ Fixed.reads = 0
        /\ ~Fixed.wrote

\* A fix_dependencies has just returned with no project loaded.
C13_Witness == last.op = "fix_dependencies" /\ ~project_loaded(App)

\* the core operations, by the name the step leaves in `last`
CoreOps ==
    {"create", "open", "open_file", "close", "fix_dependencies", "reload_cargo"}

IsPrefix(s, t) == Len(s) <= Len(t) /\ SubSeq(t, 1, Len(s)) = s

\* C14: the core only appends to the task queue: across every core
\* operation, whether it succeeds or fails, the queue before the call is an
\* unchanged prefix of the queue after it.
C14_QueueOnlyGrows ==
    [][last'.op \in CoreOps => IsPrefix(gui_tasks, gui_tasks')]_vars

\* A close has added its tasks behind those a create left in the queue.
C14_Witness ==
    /\ last.op = "close"
    /\ Len(gui_tasks) = 6
    /\ gui_tasks[1] = EnableUi(TRUE)
    /\ gui_tasks[3] = ReloadProjectSettings
    /\ EndsWith(gui_tasks, CloseTasks)

\* C15: a create, open or open_file that returns an error leaves the project
\* slot, gui_struct_index and the task queue as they were before the call.
C15_LifecycleFailsAtomically ==
    [][(last'.op \in {"create", "open", "open_file"} /\ ~last'.ok) =>
          /\ project' = project
          /\ gui_struct_index' = gui_struct_index
          /\ gui_tasks' = gui_tasks]_vars

\* the outcome of reload_cargo in the current state
Reloaded == reload_cargo(App, Fs)

\* C16: reload_cargo follows the timestamp rule: a file whose timestamp
\* equals the stored `modified` leaves the Manifest unchanged; a file whose
\* timestamp differs and that parses sets `modified` to the file's timestamp
\* and `content` to the parse of the file's text; a file whose timestamp
\* differs and that cannot be read or parsed gives an error and leaves the
\* Manifest unchanged.
C16_TimestampRule ==
    project_loaded(App) =>
        LET proj == Unwrap(project)
            file == ManifestFile
            same == Unwrap(file).mtime = proj.cargo_toml.modified
            parsed == toml_from_str(Unwrap(file).text)
        IN  /\ Reloaded.f = Fs
            /\ (IsSome(file) /\ same) =>
                  Reloaded.ret = Ok /\ Reloaded.s = App
            /\ (IsSome(file) /\ ~same /\ IsSome(parsed)) =>
                  /\ Reloaded.ret = Ok
                  /\ Unwrap(Reloaded.s.project).cargo_toml =
                        [modified |-> Unwrap(file).mtime,
                         content |-> Unwrap(parsed)]
                  /\ Unwrap(Reloaded.s.project).path = proj.path
                  /\ Reloaded.s.gui_tasks = gui_tasks
                  /\ Reloaded.s.gui_struct_index = gui_struct_index
            /\ (~IsSome(file) \/ (~same /\ ~IsSome(parsed))) =>
                  ~Reloaded.ret.ok /\ Reloaded.s = App

\* A reload_cargo has just re-read a manifest whose timestamp had changed and
\* the Manifest now holds the file's timestamp.
C16_Witness ==
    /\ last.op = "reload_cargo" /\ last.ok /\ last.reads = 1
    /\ project_loaded(App)
    /\ Unwrap(project).cargo_toml.modified = Unwrap(ManifestFile).mtime
    /\ Unwrap(project).cargo_toml.modified # mtime[Unwrap(project).path]

\* C17: after a fix_dependencies that spliced the file and returned Ok, the
\* Manifest in memory has both required dependencies, a ReloadProjectSettings
\* was appended, and a fix_dependencies called next writes nothing.
C17_FixReloadsManifest ==
    (FixWrote /\ last.ok) =>
        /\ BothPresent(Unwrap(project).cargo_toml.content)
        /\ EndsWith(gui_tasks, <<ReloadProjectSettings>>)
        /\ ~Fixed.wrote

\* the Manifest in memory lacks a required dependency
SomeMissing ==
    \/ missing_dependencies(Unwrap(project))[1]
    \/ missing_dependencies(Unwrap(project))[2]

\* C18: with a required dependency missing and no "[dependencies]" in the
\* text of the manifest file, fix_dependencies returns the not-found error
\* and leaves the file, the Manifest and the queue as they were.
C18_NoHeaderNoWrite ==
    (/\ project_loaded(App)
     /\ SomeMissing
     /\ IsSome(ManifestFile)
     /\ HeaderEnds(TextBefore) = {}) =>
        /\ Fixed.ret = Err("dependencies_not_found")
        /\ Fixed.f = Fs
        /\ Fixed.s = App
        /\ ~Fixed.wrote

\* A fix_dependencies has just read a manifest without the header and failed.
C18_Witness ==
    /\ last.op = "fix_dependencies" /\ ~last.ok
    /\ last.reads = 1 /\ ~last.wrote
    /\ project_loaded(App) /\ SomeMissing
    /\ HeaderEnds(TextBefore) = {}

\* how many entries the text has for the dependency
EntryCount(text, name) == Cardinality(MatchOffsets(text, <<name, "=">>))

\* C19: when exactly one required dependency is present, the file
\* fix_dependencies writes has no second entry for it: no required dependency
\* occurs twice in the written text, the text parses and the call succeeds.
C19_InsertsOnlyMissing ==
    (/\ project_loaded(App)
     /\ IsSome(ManifestFile)
     /\ toml_from_str(TextBefore) = Some(Unwrap(project).cargo_toml.content)
     /\ missing_dependencies(Unwrap(project))[1]
            # missing_dependencies(Unwrap(project))[2]
     /\ Fixed.wrote) =>
        /\ EntryCount(TextAfter, "native-windows-gui") <= 1
        /\ EntryCount(TextAfter, "native-windows-derive") <= 1
        /\ IsSome(toml_from_str(TextAfter))
        /\ Fixed.ret.ok

\* the flags of the EnableUi tasks of a queue, in order
RECURSIVE EnableFlags(_)
EnableFlags(tasks) ==
    IF tasks = <<>> THEN <<>>
    ELSE (IF Head(tasks).tag = "EnableUi" THEN <<Head(tasks).flag>> ELSE <<>>)
            \o EnableFlags(Tail(tasks))

\* C20: whenever the queue holds an EnableUi task, the flag of the last
\* EnableUi in the queue says whether a project is loaded.
C20_LastEnableUiTellsLoaded ==
    LET flags == EnableFlags(gui_tasks)
    IN  flags # <<>> => (flags[Len(flags)] = project_loaded(App))

\* The queue holds the EnableUi(false) of a close and behind it the
\* EnableUi(true) of the operation that loaded the current project.
C20_Witness ==
    /\ EnableFlags(gui_tasks) = <<FALSE, TRUE>>
    /\ project_loaded(App)

====
